---------------------------- MODULE Spec2Model ----------------------------
(***************************************************************************)
(* bn::unique_ptr (src/unnamed/part_000): a move-only owning handle with a *)
(* stored deleter, and the client program that constructs, moves, resets,  *)
(* releases, swaps and destroys such handles.                              *)
(*                                                                         *)
(* Addresses are the integers 1..MaxAddr, nullptr is 0.  A deleter is      *)
(* identified by the value of its state: 0 is the default-constructed      *)
(* deleter, the others are written through get_deleter().  Moving a        *)
(* deleter copies that value (a trivially movable deleter).                *)
(***************************************************************************)
EXTENDS Integers, Sequences, FiniteSets

NumHandles == 2     \* handle objects the client program declares
MaxAddr == 2        \* addresses operator new can return
MaxDeleter == 1     \* deleter states other than the default one
MaxSize == 4        \* the largest template argument Size of an array
MaxDepth == 2       \* calls of reset() nested through the deleter

Null == 0
Addr == 1 .. MaxAddr
Pointer == 0 .. MaxAddr
Deleters == 0 .. MaxDeleter
Handles == 1 .. NumHandles
DefaultDeleter == 0

\* the arrays of the program, and the values of their elements
Arrays == {"a", "b"}
Values == {3, 7}

\* the threads of a concurrent program; thread t works on handle t
Threads == {1, 2}

VARIABLES
    live,        \* live[h]: handle h is within its lifetime
    ptr,         \* ptr[h]: the member _ptr of handle h (Null when not live)
    deleter,     \* deleter[h]: the member _deleter of handle h
    ncalls,      \* how many deleter invocations the last operation made
    ret,         \* what the last operation returned (release), else Null
    last,        \* the name of the last operation
    heap,        \* heap[a]: "never" allocated, "alloc" (a live object), or
                 \* "freed" (passed to a deleter since it was allocated)
    ndel,        \* ndel[a]: deleter invocations on a since its allocation
    callerOwns,  \* addresses handed to the caller by release() and not
                 \* bound to a handle since
    halted,      \* a failed assertion has stopped the program
    obs,         \* what the last call of an observer (dereference,
                 \* comparison, element access) was given and returned
    Size,        \* the template argument Size of the arrays
    data,        \* data[x][i]: element i of the member _data of array x
    thr,         \* thr[t]: where thread t is in the member function it
                 \* runs on its handle, and that function's locals
    stack        \* the calls of reset(), ~unique_ptr() and reset(pointer)
                 \* that have not returned yet, the innermost last

vars == <<live, ptr, deleter, ncalls, ret, last, heap, ndel, callerOwns,
          halted, obs, Size, data, thr, stack>>

---------------------------------------------------------------------------
(* The member functions, as functions of the handles' members.  A value s  *)
(* is the members of all handles, the deleter invocations made so far in   *)
(* the running operation, in order, each <<deleter, address>>, and the     *)
(* result of the last release().                                           *)

Cur == [ptr |-> ptr, deleter |-> deleter, calls |-> <<>>, result |-> Null]

\* operator bool, line 106
bool(s, h) == s.ptr[h] # Null

\* get(), lines 114 and 122
get(s, h) == s.ptr[h]

\* get_deleter(), lines 130 and 138
get_deleter(s, h) == s.deleter[h]

\* A faulty release(): returns the address and keeps holding it.
release_keep(s, h) == [s EXCEPT !.result = s.ptr[h]]

\* A faulty release(): disposes the object it hands over.
release_dispose(s, h) ==
    [s EXCEPT !.calls = Append(s.calls, <<s.deleter[h], s.ptr[h]>>),
              !.result = s.ptr[h], !.ptr[h] = Null]

\* release(), line 187: result = _ptr; _ptr = nullptr; return result
release(s, h) == [s EXCEPT !.result = s.ptr[h], !.ptr[h] = Null]

\* A faulty reset(): skips the deleter when the handle is empty.
reset_skip_null(s, h) ==
    IF s.ptr[h] # Null
    THEN [s EXCEPT !.calls = Append(s.calls, <<s.deleter[h], s.ptr[h]>>),
                   !.ptr[h] = Null]
    ELSE s

\* reset(), line 197: _deleter(_ptr); _ptr = nullptr
reset(s, h) ==
    [s EXCEPT !.calls = Append(s.calls, <<s.deleter[h], s.ptr[h]>>),
              !.ptr[h] = Null]

\* A faulty reset(pointer): rebinds without disposing the current object.
reset_ptr_leak(s, h, p) == [s EXCEPT !.ptr[h] = p]

\* A faulty reset(pointer): no comparison with the current address.
reset_ptr_always(s, h, p) ==
    [s EXCEPT !.calls = Append(s.calls, <<s.deleter[h], s.ptr[h]>>),
              !.ptr[h] = p]

\* reset(pointer), line 207: if(ptr != _ptr) { reset(); _ptr = ptr; }
reset_ptr(s, h, p) ==
    IF p # s.ptr[h] THEN [reset(s, h) EXCEPT !.ptr[h] = p] ELSE s

\* The implicit conversion OtherType* -> Type* of the templated overloads.
\* An address of the model names the managed object; the converted pointer
\* names the same object, and nullptr converts to nullptr.
convert(p) == IF p = Null THEN Null ELSE p

\* A faulty reset(OtherType*): no comparison with the current address.
reset_other_always(s, h, p) ==
    [reset(s, h) EXCEPT !.ptr[h] = convert(p)]

\* reset(OtherType*), line 220
reset_other(s, h, p) ==
    IF convert(p) # s.ptr[h] THEN [reset(s, h) EXCEPT !.ptr[h] = convert(p)]
    ELSE s

\* unique_ptr(pointer), line 40: _ptr(ptr), _deleter default-constructed
ctor_ptr(s, h, p) ==
    [s EXCEPT !.ptr[h] = p, !.deleter[h] = DefaultDeleter]

\* unique_ptr(), line 34 with the member initialisers of lines 387-388
ctor_default(s, h) == ctor_ptr(s, h, Null)

\* A faulty move constructor: copies the address, the source keeps it.
move_ctor_copy(s, h, g) ==
    [s EXCEPT !.ptr[h] = s.ptr[g], !.deleter[h] = s.deleter[g]]

\* unique_ptr(unique_ptr&&), line 51
move_ctor(s, h, g) ==
    LET s1 == release(s, g)
    IN  [s1 EXCEPT !.ptr[h] = s1.result, !.deleter[h] = s1.deleter[g]]

\* unique_ptr(unique_ptr<OtherType, OtherDeleter>&&), line 62
move_ctor_other(s, h, g) ==
    LET s1 == release(s, g)
    IN  [s1 EXCEPT !.ptr[h] = convert(s1.result),
                   !.deleter[h] = get_deleter(s1, g)]

\* A faulty move assignment: disposes the current object before taking
\* the other handle's.
move_assign_dispose_first(s, h, g) ==
    LET s1 == reset(s, h)
        s2 == release(s1, g)
    IN  [s2 EXCEPT !.ptr[h] = s2.result, !.deleter[h] = s2.deleter[g]]

\* A faulty move assignment: takes the deleter before disposing the
\* current object.
move_assign_deleter_first(s, h, g) ==
    LET s0 == [s EXCEPT !.deleter[h] = s.deleter[g]]
        s1 == release(s0, g)
    IN  reset_ptr(s1, h, s1.result)

\* operator=(unique_ptr&&), line 75
move_assign(s, h, g) ==
    LET s1 == release(s, g)
        s2 == reset_ptr(s1, h, s1.result)
    IN  [s2 EXCEPT !.deleter[h] = s2.deleter[g]]

\* operator=(unique_ptr<OtherType, OtherDeleter>&&), line 88
move_assign_other(s, h, g) ==
    LET s1 == release(s, g)
        s2 == reset_other(s1, h, s1.result)
    IN  [s2 EXCEPT !.deleter[h] = get_deleter(s2, g)]

\* A faulty destructor: disposes nothing.
dtor_noop(s, h) == s

\* ~unique_ptr(), line 98
dtor(s, h) == reset(s, h)

\* A faulty swap: assigns the other handle's members instead of exchanging.
swap_copy(s, h, g) ==
    [s EXCEPT !.ptr[h] = s.ptr[g], !.deleter[h] = s.deleter[g]]

\* A faulty swap: exchanges the addresses and leaves the deleters.
swap_ptr_only(s, h, g) ==
    [s EXCEPT !.ptr = [@ EXCEPT ![h] = s.ptr[g], ![g] = s.ptr[h]]]

\* swap(unique_ptr&), line 234
swap(s, h, g) ==
    [s EXCEPT !.ptr = [@ EXCEPT ![h] = s.ptr[g], ![g] = s.ptr[h]],
              !.deleter = [@ EXCEPT ![h] = s.deleter[g], ![g] = s.deleter[h]]]

\* get_deleter() = d, line 138: the mutable reference is assigned
set_deleter(s, h, d) == [s EXCEPT !.deleter[h] = d]

---------------------------------------------------------------------------
(* The client program.                                                     *)

\* the non-null addresses passed to a deleter by the operation that ended in s
Disposed(s) == {s.calls[i][2] : i \in 1 .. Len(s.calls)} \ {Null}

\* how many times the operation that ended in s passed a to a deleter
Times(s, a) == Cardinality({i \in 1 .. Len(s.calls) : s.calls[i][2] = a})

\* the handles that hold address a
Holders(a) == {h \in Handles : live[h] /\ ptr[h] = a}

\* addresses operator new can return: those holding no live object
Fresh == {a \in Addr : heap[a] # "alloc"}

\* the addresses the caller is entitled to bind to a handle: nullptr, a new
\* object, or an object release() handed to it
Owned == {Null} \cup Fresh \cup callerOwns

\* no observer ran last
NoObs == <<>>

\* a thread that runs no member function and owns the addresses O
IdleThread(O) ==
    [pc |-> "idle", op |-> "none", arg |-> Null, tmp |-> Null, ptr0 |-> Null,
     done |-> <<>>, owns |-> O]

\* One operation ran: s is the members afterwards, lv the lifetimes
\* afterwards, bound the address the caller gave to the handle (or Null).
Step(op, s, lv, bound) ==
    /\ ~halted
    /\ halted' = halted
    /\ obs' = NoObs
    /\ UNCHANGED <<Size, data, thr, stack>>
    /\ live' = lv
    /\ ptr' = [h \in Handles |-> IF lv[h] THEN s.ptr[h] ELSE Null]
    /\ deleter' = [h \in Handles |-> IF lv[h] THEN s.deleter[h]
                                      ELSE DefaultDeleter]
    /\ ncalls' = Len(s.calls)
    /\ ret' = IF op = "release" THEN s.result ELSE Null
    /\ last' = op
    /\ heap' = [a \in Addr |->
                  IF a \in Disposed(s) THEN "freed"
                  ELSE IF a = bound /\ heap[a] # "alloc" THEN "alloc"
                  ELSE heap[a]]
    /\ ndel' = [a \in Addr |->
                  (IF a = bound /\ heap[a] # "alloc" THEN 0 ELSE ndel[a])
                  + Times(s, a)]
    /\ callerOwns' =
          (callerOwns \cup (IF op = "release" THEN {s.result} \ {Null} ELSE {}))
          \ {bound}

\* no handle constructed yet
NoHandles ==
    /\ live = [h \in Handles |-> FALSE]
    /\ ptr = [h \in Handles |-> Null]
    /\ deleter = [h \in Handles |-> DefaultDeleter]
    /\ ncalls = 0
    /\ ret = Null
    /\ last = "init"
    /\ heap = [a \in Addr |-> "never"]
    /\ ndel = [a \in Addr |-> 0]
    /\ callerOwns = {}
    /\ halted = FALSE
    /\ obs = NoObs
    /\ thr = [t \in Threads |-> IdleThread({})]
    /\ stack = <<>>

\* A program of handles: its arrays are not used.
Init ==
    /\ NoHandles
    /\ Size = 1
    /\ data = [x \in Arrays |-> [i \in 0 .. 0 |-> CHOOSE v \in Values : TRUE]]

Born(h) == [live EXCEPT ![h] = TRUE]

\* unique_ptr<T> h;
DefaultCtor(h) ==
    /\ ~live[h]
    /\ Step("ctor_default", ctor_default(Cur, h), Born(h), Null)

\* unique_ptr<T> h(p);
Ctor(h, p) ==
    /\ ~live[h]
    /\ Step("ctor_ptr", ctor_ptr(Cur, h, p), Born(h), p)

\* auto h = make_unique<T>(args...), line 403: new Type, then unique_ptr(p)
MakeUnique(h) ==
    /\ ~live[h]
    /\ \E a \in Fresh : Step("make_unique", ctor_ptr(Cur, h, a), Born(h), a)

\* unique_ptr<T> h(move(g));
MoveCtor(h, g) ==
    /\ ~live[h] /\ live[g]
    /\ Step("move_ctor", move_ctor(Cur, h, g), Born(h), Null)

\* unique_ptr<Base> h(move(g)), g a unique_ptr<Derived>
MoveCtorOther(h, g) ==
    /\ ~live[h] /\ live[g]
    /\ Step("move_ctor_other", move_ctor_other(Cur, h, g), Born(h), Null)

\* h = move(g);
MoveAssign(h, g) ==
    /\ live[h] /\ live[g]
    /\ Step("move_assign", move_assign(Cur, h, g), live, Null)

\* h = move(g), g of a convertible type: g is another object than h
MoveAssignOther(h, g) ==
    /\ live[h] /\ live[g] /\ h # g
    /\ Step("move_assign_other", move_assign_other(Cur, h, g), live, Null)

\* h goes out of scope
Destroy(h) ==
    /\ live[h]
    /\ Step("dtor", dtor(Cur, h), [live EXCEPT ![h] = FALSE], Null)

\* p = h.release();
Release(h) ==
    /\ live[h]
    /\ Step("release", release(Cur, h), live, Null)

\* h.reset();
Reset(h) ==
    /\ live[h]
    /\ Step("reset", reset(Cur, h), live, Null)

\* h.reset(p);
ResetPtr(h, p) ==
    /\ live[h]
    /\ Step("reset_ptr", reset_ptr(Cur, h, p), live, p)

\* h.reset(p), p an OtherType*
ResetOther(h, p) ==
    /\ live[h]
    /\ Step("reset_other", reset_other(Cur, h, p), live, p)

\* h.swap(g); swap(h, g);
Swap(h, g) ==
    /\ live[h] /\ live[g]
    /\ Step("swap", swap(Cur, h, g), live, Null)

\* h.get_deleter() = d;
SetDeleter(h, d) ==
    /\ live[h]
    /\ Step("set_deleter", set_deleter(Cur, h, d), live, Null)

\* The client passes to a handle only addresses it owns; h.reset(h.get())
\* is the one call that names an address a handle holds.
Next ==
    \/ \E h \in Handles : DefaultCtor(h)
    \/ \E h \in Handles, p \in Owned : Ctor(h, p)
    \/ \E h \in Handles : MakeUnique(h)
    \/ \E h, g \in Handles : MoveCtor(h, g)
    \/ \E h, g \in Handles : MoveCtorOther(h, g)
    \/ \E h, g \in Handles : MoveAssign(h, g)
    \/ \E h, g \in Handles : MoveAssignOther(h, g)
    \/ \E h \in Handles : Destroy(h)
    \/ \E h \in Handles : Release(h)
    \/ \E h \in Handles : Reset(h)
    \/ \E h \in Handles : \E p \in Owned \cup {ptr[h]} : ResetPtr(h, p)
    \/ \E h \in Handles : \E p \in Owned \cup {ptr[h]} : ResetOther(h, p)
    \/ \E h, g \in Handles : Swap(h, g)
    \/ \E h \in Handles, d \in Deleters : SetDeleter(h, d)

Spec == Init /\ [][Next]_vars

\* The client may also pass an address that a handle holds: nothing in the
\* interface prevents unique_ptr<T> b(a.get()) or b.reset(a.get()).
Held == {a \in Addr : Holders(a) # {}}

NextAny ==
    \/ \E h \in Handles : DefaultCtor(h)
    \/ \E h \in Handles, p \in Owned \cup Held : Ctor(h, p)
    \/ \E h, g \in Handles : MoveCtor(h, g)
    \/ \E h, g \in Handles : MoveAssign(h, g)
    \/ \E h \in Handles : Destroy(h)
    \/ \E h \in Handles : Release(h)
    \/ \E h \in Handles : Reset(h)
    \/ \E h \in Handles, p \in Owned \cup Held : ResetPtr(h, p)
    \/ \E h, g \in Handles : Swap(h, g)

SpecAny == Init /\ [][NextAny]_vars

---------------------------------------------------------------------------
(* The observers of a handle: dereference and comparison.                  *)

\* BN_BASIC_ASSERT(condition, message): the program goes on when the
\* condition holds and stops for good when it does not.
assert_fails(condition) == condition = FALSE

\* what a dereference gives: the program stopped, or the managed object
Stopped == [halt |-> TRUE, value |-> Null]
Referred(p) == [halt |-> FALSE, value |-> p]

\* const Type& operator*() const, line 146
deref_const(s, h) ==
    IF assert_fails(s.ptr[h] # Null) THEN Stopped ELSE Referred(s.ptr[h])

\* A faulty operator*: no assertion.
deref_unchecked(s, h) == Referred(s.ptr[h])

\* reference operator*(), line 156
deref(s, h) ==
    IF assert_fails(s.ptr[h] # Null) THEN Stopped ELSE Referred(s.ptr[h])

\* const Type* operator->() const, line 166
arrow_const(s, h) ==
    IF assert_fails(s.ptr[h] # Null) THEN Stopped ELSE Referred(s.ptr[h])

\* pointer operator->(), line 176
arrow(s, h) ==
    IF assert_fails(s.ptr[h] # Null) THEN Stopped ELSE Referred(s.ptr[h])

\* operator==(const unique_ptr&, nullptr_t), line 326: ! a._ptr
eq_null(s, h) == ~(s.ptr[h] # Null)

\* operator!=(const unique_ptr&, nullptr_t), line 337: a._ptr
ne_null(s, h) == s.ptr[h] # Null

\* operator<(const unique_ptr&, nullptr_t), line 348
lt_null(s, h) == FALSE

\* A faulty operator>(unique_ptr, nullptr): the answer of operator<.
gt_null_never(s, h) == FALSE

\* operator>(const unique_ptr&, nullptr_t), line 359: a._ptr
gt_null(s, h) == s.ptr[h] # Null

\* operator<=(const unique_ptr&, nullptr_t), line 370: ! a._ptr
le_null(s, h) == ~(s.ptr[h] # Null)

\* operator>=(const unique_ptr&, nullptr_t), line 381
ge_null(s, h) == TRUE

\* operator==(const unique_ptr&, const unique_ptr&), line 256
eq(s, h, g) == s.ptr[h] = s.ptr[g]

\* operator!=, line 267
ne(s, h, g) == s.ptr[h] # s.ptr[g]

\* operator<, line 279
lt(s, h, g) == s.ptr[h] < s.ptr[g]

\* operator>, line 291
gt(s, h, g) == s.ptr[h] > s.ptr[g]

\* A faulty operator<=: strict.
le_strict(s, h, g) == s.ptr[h] < s.ptr[g]

\* operator<=, line 303
le(s, h, g) == s.ptr[h] <= s.ptr[g]

\* operator>=, line 315
ge(s, h, g) == s.ptr[h] >= s.ptr[g]

\* the six comparisons of h with nullptr
NullComparisons(s, h) ==
    [eq |-> eq_null(s, h), ne |-> ne_null(s, h), lt |-> lt_null(s, h),
     gt |-> gt_null(s, h), le |-> le_null(s, h), ge |-> ge_null(s, h)]

\* the six comparisons of h with g
Comparisons(s, h, g) ==
    [eq |-> eq(s, h, g), ne |-> ne(s, h, g), lt |-> lt(s, h, g),
     gt |-> gt(s, h, g), le |-> le(s, h, g), ge |-> ge(s, h, g)]

\* An observer ran: it changes no member and no object; it may stop the
\* program.
Observe(op, seen, stops) ==
    /\ ~halted
    /\ halted' = stops
    /\ obs' = seen
    /\ last' = op
    /\ ncalls' = 0
    /\ ret' = Null
    /\ UNCHANGED <<live, ptr, deleter, heap, ndel, callerOwns, Size, data, thr,
                   stack>>

\* *h, h a const handle
DerefConst(h) ==
    /\ live[h]
    /\ LET r == deref_const(Cur, h) IN Observe("deref_const", <<h, r.value>>, r.halt)

\* *h
Deref(h) ==
    /\ live[h]
    /\ LET r == deref(Cur, h) IN Observe("deref", <<h, r.value>>, r.halt)

\* h->member, h a const handle
ArrowConst(h) ==
    /\ live[h]
    /\ LET r == arrow_const(Cur, h) IN Observe("arrow_const", <<h, r.value>>, r.halt)

\* h->member
Arrow(h) ==
    /\ live[h]
    /\ LET r == arrow(Cur, h) IN Observe("arrow", <<h, r.value>>, r.halt)

\* h == nullptr, h != nullptr, h < nullptr, h > nullptr, h <= nullptr,
\* h >= nullptr
CompareNull(h) ==
    /\ live[h]
    /\ Observe("compare_null", <<h, NullComparisons(Cur, h)>>, FALSE)

\* h == g, h != g, h < g, h > g, h <= g, h >= g, and the same of g with h
Compare(h, g) ==
    /\ live[h] /\ live[g]
    /\ Observe("compare", <<h, g, Comparisons(Cur, h, g), Comparisons(Cur, g, h)>>,
               FALSE)

\* The client of Spec, without deleter assignment and the templated
\* overloads, which also dereferences and compares its handles.
NextObs ==
    \/ \E h \in Handles : DefaultCtor(h)
    \/ \E h \in Handles, p \in Owned : Ctor(h, p)
    \/ \E h \in Handles : MakeUnique(h)
    \/ \E h, g \in Handles : MoveCtor(h, g)
    \/ \E h, g \in Handles : MoveAssign(h, g)
    \/ \E h \in Handles : Destroy(h)
    \/ \E h \in Handles : Release(h)
    \/ \E h \in Handles : Reset(h)
    \/ \E h \in Handles : \E p \in Owned \cup {ptr[h]} : ResetPtr(h, p)
    \/ \E h, g \in Handles : Swap(h, g)
    \/ \E h \in Handles : DerefConst(h)
    \/ \E h \in Handles : Deref(h)
    \/ \E h \in Handles : ArrowConst(h)
    \/ \E h \in Handles : Arrow(h)
    \/ \E h \in Handles : CompareNull(h)
    \/ \E h, g \in Handles : Compare(h, g)

SpecObs == Init /\ [][NextObs]_vars

---------------------------------------------------------------------------
(* btn::array<Type, Size>.  An array is its member _data, a function from  *)
(* 0 .. Size - 1 to the values of the elements; S is the template argument *)
(* Size.  An iterator is the index of the element it points to.            *)

\* the indices the client passes: below, within and beyond every array
Indices == -1 .. MaxSize

\* size(), line 54
size(S) == S

\* max_size(), line 62
max_size(S) == S

\* A faulty available(): counts the elements.
available_all(S) == S

\* available(), line 70
available(S) == 0

\* empty(), line 78
empty(S) == FALSE

\* full(), line 86
full(S) == TRUE

\* begin(), lines 94 and 102: &_data[0]
begin(S) == 0

\* end(), lines 110 and 118: &_data[Size]
end(S) == S

\* BTN_ASSERT(condition, ...): the program goes on when the condition
\* holds and stops for good when it does not.
btn_assert_fails(condition) == condition = FALSE

\* what an element access gives: the program stopped, or element i
Invalid == [halt |-> TRUE, index |-> -1, value |-> 0]
Element(d, i) == [halt |-> FALSE, index |-> i, value |-> d[i]]

\* const_reference operator[](size_type index) const, line 190
subscript_const(d, S, index) ==
    IF btn_assert_fails(index >= 0 /\ index < S) THEN Invalid
    ELSE Element(d, index)

\* reference operator[](size_type index), line 200
subscript(d, S, index) ==
    IF btn_assert_fails(index >= 0 /\ index < S) THEN Invalid
    ELSE Element(d, index)

\* const_reference at(size_type index) const, line 210
at_const(d, S, index) ==
    IF btn_assert_fails(index >= 0 /\ index < S) THEN Invalid
    ELSE Element(d, index)

\* A faulty at(): accepts index == Size.
at_upto(d, S, index) ==
    IF btn_assert_fails(index >= 0 /\ index <= S) THEN Invalid
    ELSE Element(d, IF index < S THEN index ELSE S - 1)

\* reference at(size_type index), line 220
at(d, S, index) ==
    IF btn_assert_fails(index >= 0 /\ index < S) THEN Invalid
    ELSE Element(d, index)

\* front(), lines 230 and 238: _data[0]
front(d, S) == Element(d, 0)

\* back(), lines 246 and 254: _data[Size - 1]
back(d, S) == Element(d, S - 1)

\* btn::fill(first, last, value): assigns value to every element of
\* [first, last)
RECURSIVE fill_range(_, _, _, _)
fill_range(d, first, lst, value) ==
    IF first = lst THEN d
    ELSE fill_range([d EXCEPT ![first] = value], first + 1, lst, value)

\* A faulty fill(): stops one element before the end.
fill_short(d, S, value) == fill_range(d, begin(S), end(S) - 1, value)

\* fill(const_reference value), line 262
fill(d, S, value) == fill_range(d, begin(S), end(S), value)

\* btn::swap(x, y) of the elements index of two arrays (of one array when
\* a = b)
swap_elements(D, a, b, index) ==
    IF a = b THEN D
    ELSE [D EXCEPT ![a][index] = D[b][index], ![b][index] = D[a][index]]

\* the loop of array::swap, line 276, from index on
RECURSIVE swap_loop(_, _, _, _, _)
swap_loop(D, a, b, S, index) ==
    IF index < S THEN swap_loop(swap_elements(D, a, b, index), a, b, S, index + 1)
    ELSE D

\* A faulty array::swap: copies other into this.
array_swap_copy(D, a, b, S) == [D EXCEPT ![a] = D[b]]

\* swap(array& other), line 271, and friend swap(a, b), line 287; D is the
\* _data of every array
array_swap(D, a, b, S) == swap_loop(D, a, b, S, 0)

\* btn::equal(first1, last1, first2)
RECURSIVE equal(_, _, _, _, _)
equal(a, first1, last1, b, first2) ==
    IF first1 = last1 THEN TRUE
    ELSE IF a[first1] # b[first2] THEN FALSE
    ELSE equal(a, first1 + 1, last1, b, first2 + 1)

\* btn::lexicographical_compare(first1, last1, first2, last2)
RECURSIVE lexicographical_compare(_, _, _, _, _, _)
lexicographical_compare(a, first1, last1, b, first2, last2) ==
    IF first1 # last1 /\ first2 # last2
    THEN IF a[first1] < b[first2] THEN TRUE
         ELSE IF b[first2] < a[first1] THEN FALSE
         ELSE lexicographical_compare(a, first1 + 1, last1, b, first2 + 1, last2)
    ELSE first1 = last1 /\ first2 # last2

\* operator==(const array& a, const array& b), line 298
equals(a, b, S) ==
    IF size(S) # size(S) THEN FALSE
    ELSE equal(a, begin(S), end(S), b, begin(S))

\* operator!=, line 314: ! (a == b)
not_equals(a, b, S) == ~equals(a, b, S)

\* operator<, line 325
less(a, b, S) == lexicographical_compare(a, begin(S), end(S), b, begin(S), end(S))

\* operator>, line 337: b < a
greater(a, b, S) == less(b, a, S)

\* A faulty operator<=: strict.
less_equal_strict(a, b, S) == less(a, b, S)

\* operator<=, line 349: ! (a > b)
less_equal(a, b, S) == ~greater(a, b, S)

\* operator>=, line 361: ! (a < b)
greater_equal(a, b, S) == ~less(a, b, S)

\* the six comparisons of array a with array b
ArrayComparisons(a, b, S) ==
    [eq |-> equals(a, b, S), ne |-> not_equals(a, b, S),
     lt |-> less(a, b, S), gt |-> greater(a, b, S),
     le |-> less_equal(a, b, S), ge |-> greater_equal(a, b, S)]

\* what the capacity functions return
Capacity(S) ==
    [size |-> size(S), max_size |-> max_size(S), available |-> available(S),
     empty |-> empty(S), full |-> full(S)]

\* A member function of an array ran: D is the _data of every array
\* afterwards.  The handles are not touched.
ArrayStep(op, seen, stops, D) ==
    /\ ~halted
    /\ halted' = stops
    /\ obs' = seen
    /\ last' = op
    /\ data' = D
    /\ UNCHANGED <<Size, live, ptr, deleter, ncalls, ret, heap, ndel, callerOwns,
                   thr, stack>>

\* Arrays of one Size, default-constructed: the elements hold any values.
InitArr ==
    /\ NoHandles
    /\ Size \in 1 .. MaxSize
    /\ data \in [Arrays -> [0 .. Size - 1 -> Values]]

\* x.size(), x.max_size(), x.available(), x.empty(), x.full()
AskCapacity(x) == ArrayStep("capacity", <<x, Capacity(Size)>>, FALSE, data)

\* ... = x[i], x a const array
SubscriptConst(x, i) ==
    LET r == subscript_const(data[x], Size, i)
    IN  ArrayStep("subscript_const", <<x, i, r>>, r.halt, data)

\* ... = x[i]
Subscript(x, i) ==
    LET r == subscript(data[x], Size, i)
    IN  ArrayStep("subscript", <<x, i, r>>, r.halt, data)

\* ... = x.at(i), x a const array
AtConst(x, i) ==
    LET r == at_const(data[x], Size, i)
    IN  ArrayStep("at_const", <<x, i, r>>, r.halt, data)

\* ... = x.at(i)
At(x, i) ==
    LET r == at(data[x], Size, i)
    IN  ArrayStep("at", <<x, i, r>>, r.halt, data)

\* x[i] = v
AssignSubscript(x, i, v) ==
    LET r == subscript(data[x], Size, i)
    IN  ArrayStep("assign_subscript", <<x, i, r>>, r.halt,
                  IF r.halt THEN data ELSE [data EXCEPT ![x][r.index] = v])

\* x.at(i) = v
AssignAt(x, i, v) ==
    LET r == at(data[x], Size, i)
    IN  ArrayStep("assign_at", <<x, i, r>>, r.halt,
                  IF r.halt THEN data ELSE [data EXCEPT ![x][r.index] = v])

\* ... = x.front()
Front(x) == ArrayStep("front", <<x, front(data[x], Size)>>, FALSE, data)

\* ... = x.back()
Back(x) == ArrayStep("back", <<x, back(data[x], Size)>>, FALSE, data)

\* x.front() = v
AssignFront(x, v) ==
    ArrayStep("assign_front", <<x, v>>, FALSE,
              [data EXCEPT ![x][front(data[x], Size).index] = v])

\* x.back() = v
AssignBack(x, v) ==
    ArrayStep("assign_back", <<x, v>>, FALSE,
              [data EXCEPT ![x][back(data[x], Size).index] = v])

\* x.fill(v)
Fill(x, v) ==
    ArrayStep("fill", <<x, v>>, FALSE,
              [data EXCEPT ![x] = fill(data[x], Size, v)])

\* x.swap(y); swap(x, y);
SwapArrays(x, y) ==
    ArrayStep("array_swap", <<x, y>>, FALSE, array_swap(data, x, y, Size))

\* x == y, x != y, x < y, x > y, x <= y, x >= y, and the same of y with x
CompareArrays(x, y) ==
    ArrayStep("compare_arrays",
              <<x, y, ArrayComparisons(data[x], data[y], Size),
                ArrayComparisons(data[y], data[x], Size)>>, FALSE, data)

\* A client that writes, fills, swaps and compares its arrays.
NextArr ==
    \/ \E x \in Arrays : AskCapacity(x)
    \/ \E x \in Arrays, i \in Indices, v \in Values : AssignSubscript(x, i, v)
    \/ \E x \in Arrays, i \in Indices, v \in Values : AssignAt(x, i, v)
    \/ \E x \in Arrays : Front(x)
    \/ \E x \in Arrays : Back(x)
    \/ \E x \in Arrays, v \in Values : AssignFront(x, v)
    \/ \E x \in Arrays, v \in Values : AssignBack(x, v)
    \/ \E x \in Arrays, v \in Values : Fill(x, v)
    \/ \E x, y \in Arrays : SwapArrays(x, y)
    \/ \E x, y \in Arrays : CompareArrays(x, y)

SpecArr == InitArr /\ [][NextArr]_vars

\* A client that reads and writes single elements, by any index.
NextAcc ==
    \/ \E x \in Arrays, i \in Indices : SubscriptConst(x, i)
    \/ \E x \in Arrays, i \in Indices : Subscript(x, i)
    \/ \E x \in Arrays, i \in Indices : AtConst(x, i)
    \/ \E x \in Arrays, i \in Indices : At(x, i)
    \/ \E x \in Arrays, i \in Indices, v \in Values : AssignSubscript(x, i, v)
    \/ \E x \in Arrays, i \in Indices, v \in Values : AssignAt(x, i, v)

SpecAcc == InitArr /\ [][NextAcc]_vars

---------------------------------------------------------------------------
(* Threads.  Thread t runs the member functions of handle t, one read or   *)
(* write of a member, one call of the deleter or of operator new at a      *)
(* time, interleaved with the steps of the other threads.  thr[t] holds    *)
(* pc (the next step), op and arg (the function and its argument), tmp     *)
(* (the local read from _ptr), ptr0 (the _ptr the function started from),  *)
(* done (the deleter invocations it made so far) and owns (the addresses   *)
(* release() has handed to the thread).                                    *)

\* A faulty write of _ptr: writes the _ptr of every handle.
store_ptr_all(P, h, p) == [g \in DOMAIN P |-> p]

\* _ptr = p, lines 190, 200 and 211, on handle h
store_ptr(P, h, p) == [P EXCEPT ![h] = p]

\* the first step of a member function
FirstStep(op) ==
    CASE op = "make_unique" -> "alloc"
      [] op = "ctor_ptr" -> "bind"
      [] op = "reset_ptr" -> "compare"
      [] OTHER -> "read"

\* the step after _ptr = nullptr
AfterClear(op) ==
    CASE op = "release" -> "return"
      [] op = "reset_ptr" -> "bind"
      [] op = "dtor" -> "die"
      [] OTHER -> "idle"

\* thread t goes on to step pc of its function, or leaves it (pc = "idle")
Goto(t, c, pc) ==
    thr' = [thr EXCEPT ![t] = IF pc = "idle" THEN IdleThread(c.owns)
                              ELSE [c EXCEPT !.pc = pc]]

\* what every step of a thread leaves alone
ThreadStep ==
    /\ ~halted
    /\ last' = "thread"
    /\ ncalls' = 0
    /\ ret' = Null
    /\ obs' = NoObs
    /\ UNCHANGED <<halted, Size, data, stack>>

\* thread t calls op on its handle, with argument p
Call(t, op, p) ==
    /\ thr[t].pc = "idle"
    /\ live[t] = (op \notin {"make_unique", "ctor_ptr"})
    /\ p \in CASE op = "ctor_ptr" -> thr[t].owns \cup {Null}
               [] op = "reset_ptr" -> thr[t].owns \cup {Null, ptr[t]}
               [] OTHER -> {Null}
    /\ ThreadStep
    /\ thr' = [thr EXCEPT ![t] =
                 [pc |-> FirstStep(op), op |-> op, arg |-> p, tmp |-> Null,
                  ptr0 |-> ptr[t], done |-> <<>>, owns |-> thr[t].owns \ {p}]]
    /\ callerOwns' = callerOwns \ {p}
    /\ UNCHANGED <<live, ptr, deleter, heap, ndel>>

\* new Type(...), line 406
Alloc(t) ==
    /\ thr[t].pc = "alloc"
    /\ ThreadStep
    /\ \E a \in Fresh :
          /\ heap' = [heap EXCEPT ![a] = "alloc"]
          /\ ndel' = [ndel EXCEPT ![a] = 0]
          /\ Goto(t, [thr[t] EXCEPT !.arg = a], "bind")
    /\ UNCHANGED <<live, ptr, deleter, callerOwns>>

\* if(ptr != _ptr), line 209
Test(t) ==
    /\ thr[t].pc = "compare"
    /\ ThreadStep
    /\ Goto(t, thr[t], IF thr[t].arg # ptr[t] THEN "read" ELSE "idle")
    /\ UNCHANGED <<live, ptr, deleter, heap, ndel, callerOwns>>

\* the read of _ptr of lines 189 and 199
Read(t) ==
    /\ thr[t].pc = "read"
    /\ ThreadStep
    /\ Goto(t, [thr[t] EXCEPT !.tmp = ptr[t]],
            IF thr[t].op = "release" THEN "clear" ELSE "delete")
    /\ UNCHANGED <<live, ptr, deleter, heap, ndel, callerOwns>>

\* _deleter(_ptr), line 199
Delete(t) ==
    /\ thr[t].pc = "delete"
    /\ ThreadStep
    /\ LET a == thr[t].tmp
       IN  /\ heap' = [b \in Addr |-> IF b = a THEN "freed" ELSE heap[b]]
           /\ ndel' = [b \in Addr |-> IF b = a THEN ndel[b] + 1 ELSE ndel[b]]
           /\ Goto(t, [thr[t] EXCEPT !.done = Append(@, <<deleter[t], a>>)], "clear")
    /\ UNCHANGED <<live, ptr, deleter, callerOwns>>

\* _ptr = nullptr, lines 190 and 200
Clear(t) ==
    /\ thr[t].pc = "clear"
    /\ ThreadStep
    /\ ptr' = store_ptr(ptr, t, Null)
    /\ Goto(t, thr[t], AfterClear(thr[t].op))
    /\ UNCHANGED <<live, deleter, heap, ndel, callerOwns>>

\* _ptr = ptr, line 212, and the initialisers of line 41
Bind(t) ==
    /\ thr[t].pc = "bind"
    /\ ThreadStep
    /\ ptr' = store_ptr(ptr, t, thr[t].arg)
    /\ live' = Born(t)
    /\ deleter' = IF live[t] THEN deleter ELSE [deleter EXCEPT ![t] = DefaultDeleter]
    /\ Goto(t, thr[t], "idle")
    /\ UNCHANGED <<heap, ndel, callerOwns>>

\* return result, line 191
Return(t) ==
    /\ thr[t].pc = "return"
    /\ ThreadStep
    /\ Goto(t, [thr[t] EXCEPT !.owns = @ \cup ({thr[t].tmp} \ {Null})], "idle")
    /\ callerOwns' = callerOwns \cup ({thr[t].tmp} \ {Null})
    /\ UNCHANGED <<live, ptr, deleter, heap, ndel>>

\* the end of ~unique_ptr(), line 101
Die(t) ==
    /\ thr[t].pc = "die"
    /\ ThreadStep
    /\ live' = [live EXCEPT ![t] = FALSE]
    /\ deleter' = [deleter EXCEPT ![t] = DefaultDeleter]
    /\ Goto(t, thr[t], "idle")
    /\ UNCHANGED <<ptr, heap, ndel, callerOwns>>

ThreadOps == {"make_unique", "ctor_ptr", "release", "reset", "reset_ptr", "dtor"}

NextConc ==
    \/ \E t \in Threads, op \in ThreadOps, p \in Pointer : Call(t, op, p)
    \/ \E t \in Threads : Alloc(t)
    \/ \E t \in Threads : Test(t)
    \/ \E t \in Threads : Read(t)
    \/ \E t \in Threads : Delete(t)
    \/ \E t \in Threads : Clear(t)
    \/ \E t \in Threads : Bind(t)
    \/ \E t \in Threads : Return(t)
    \/ \E t \in Threads : Die(t)

SpecConc == Init /\ [][NextConc]_vars

---------------------------------------------------------------------------
(* reset() statement by statement, with a deleter that uses the handle     *)
(* it is called from.  A frame of the stack is a call of reset() that has  *)
(* not returned: h the handle, op the function that called reset() ("reset"*)
(* itself, "dtor" or "reset_ptr" with the new address p), pc the next      *)
(* statement, arg the address given to the deleter, nested whether a       *)
(* reset() called from within this call's deleter has returned.            *)

\* A faulty reset(): clears _ptr before it calls the deleter.
cleared_before_deleter(P, h) == [P EXCEPT ![h] = Null]

\* the members _ptr while _deleter(_ptr) runs, line 199: not yet written
during_deleter(P, h) == P

\* the innermost call
Top == stack[Len(stack)]

\* the stack with its innermost frame replaced by f
Replace(f) == [stack EXCEPT ![Len(stack)] = f]

\* the stack after its innermost call returned
Popped ==
    IF Len(stack) = 1 THEN <<>>
    ELSE [SubSeq(stack, 1, Len(stack) - 1) EXCEPT ![Len(stack) - 1].nested = TRUE]

\* what every statement of reset() leaves alone
ResetStep(name) ==
    /\ ~halted
    /\ last' = name
    /\ ncalls' = 0
    /\ ret' = Null
    /\ UNCHANGED <<halted, Size, data, thr, deleter>>

\* reset() is entered on h: by the client (op "reset"), from ~unique_ptr()
\* (op "dtor"), from reset(p) with p != _ptr (op "reset_ptr", p null or a
\* new object), or by the deleter that the innermost call on h is running
BeginReset(h, op, p) ==
    /\ live[h]
    /\ \/ stack = <<>> /\ op \in {"reset", "dtor"} /\ p = Null
       \/ stack = <<>> /\ op = "reset_ptr" /\ p \in Fresh \cup {Null} /\ p # ptr[h]
       \/ /\ stack # <<>> /\ Len(stack) < MaxDepth
          /\ Top.h = h /\ Top.pc = "in_deleter"
          /\ op = "reset" /\ p = Null
    /\ ResetStep("begin_reset")
    /\ stack' = Append(stack, [h |-> h, op |-> op, p |-> p, pc |-> "invoke",
                               arg |-> Null, nested |-> FALSE])
    /\ heap' = [a \in Addr |-> IF a = p THEN "alloc" ELSE heap[a]]
    /\ ndel' = [a \in Addr |-> IF a = p THEN 0 ELSE ndel[a]]
    /\ obs' = NoObs
    /\ UNCHANGED <<live, ptr, callerOwns>>

\* _deleter(_ptr), line 199: the deleter is entered
InvokeDeleter ==
    /\ stack # <<>> /\ Top.pc = "invoke"
    /\ ResetStep("invoke_deleter")
    /\ LET a == ptr[Top.h]
       IN  /\ stack' = Replace([Top EXCEPT !.pc = "in_deleter", !.arg = a])
           /\ heap' = [b \in Addr |-> IF b = a THEN "freed" ELSE heap[b]]
           /\ ndel' = [b \in Addr |-> IF b = a THEN ndel[b] + 1 ELSE ndel[b]]
    /\ ptr' = during_deleter(ptr, Top.h)
    /\ obs' = NoObs
    /\ UNCHANGED <<live, callerOwns>>

\* the running deleter calls get() and operator bool on the handle
ObserveInDeleter ==
    /\ stack # <<>> /\ Top.pc = "in_deleter"
    /\ obs # <<Top.h, get(Cur, Top.h), bool(Cur, Top.h)>>
    /\ ResetStep("observe_in_deleter")
    /\ obs' = <<Top.h, get(Cur, Top.h), bool(Cur, Top.h)>>
    /\ UNCHANGED <<stack, live, ptr, heap, ndel, callerOwns>>

\* the deleter returns
DeleterReturns ==
    /\ stack # <<>> /\ Top.pc = "in_deleter"
    /\ ResetStep("deleter_returns")
    /\ stack' = Replace([Top EXCEPT !.pc = "clear"])
    /\ obs' = NoObs
    /\ UNCHANGED <<live, ptr, heap, ndel, callerOwns>>

\* _ptr = nullptr, line 200; reset() returns, and ~unique_ptr() with it
ClearPtr ==
    /\ stack # <<>> /\ Top.pc = "clear"
    /\ ResetStep("clear_ptr")
    /\ ptr' = store_ptr(ptr, Top.h, Null)
    /\ live' = IF Top.op = "dtor" THEN [live EXCEPT ![Top.h] = FALSE] ELSE live
    /\ stack' = IF Top.op = "reset_ptr" THEN Replace([Top EXCEPT !.pc = "bind"])
                ELSE Popped
    /\ obs' = NoObs
    /\ UNCHANGED <<heap, ndel, callerOwns>>

\* _ptr = ptr, line 212; reset(pointer) returns
BindPtr ==
    /\ stack # <<>> /\ Top.pc = "bind"
    /\ ResetStep("bind_ptr")
    /\ ptr' = store_ptr(ptr, Top.h, Top.p)
    /\ stack' = Popped
    /\ obs' = NoObs
    /\ UNCHANGED <<live, heap, ndel, callerOwns>>

ResetCallers == {"reset", "dtor", "reset_ptr"}

\* A client that makes objects and resets, rebinds and destroys its
\* handles, with deleters that use the handle.
NextReent ==
    \/ \E h \in Handles : stack = <<>> /\ MakeUnique(h)
    \/ \E h \in Handles, op \in ResetCallers, p \in Pointer : BeginReset(h, op, p)
    \/ InvokeDeleter
    \/ ObserveInDeleter
    \/ DeleterReturns
    \/ ClearPtr
    \/ BindPtr

SpecReent == Init /\ [][NextReent]_vars

---------------------------------------------------------------------------
(* Ownership over the handles' lifetimes.                                  *)

NoneLive == \A h \in Handles : ~live[h]

\* C1: an address bound to a handle (by make_unique or as a new object) is
\* passed to a deleter exactly once by the time every handle is destroyed,
\* whatever moves, swaps, resets and destructions happened: never twice at
\* any time, and not zero times once no handle is left, unless release()
\* handed it to the caller.
DisposedExactlyOnce ==
    \A a \in Addr :
        /\ ndel[a] <= 1
        /\ (NoneLive /\ heap[a] # "never" /\ a \notin callerOwns) => ndel[a] = 1

DisposedExactlyOnceWitness ==
    /\ NoneLive
    /\ last = "dtor"
    /\ callerOwns = {}
    /\ \E a \in Addr : heap[a] = "freed" /\ ndel[a] = 1

\* C2: after moving handle g into another handle h (either move constructor,
\* either move assignment), g is empty, g.get() is null and h.get() is the
\* address g held before the move.
MoveEmptiesSource ==
    [][last' \in {"move_ctor", "move_ctor_other", "move_assign",
                  "move_assign_other"} =>
       \A h, g \in Handles :
          (h # g /\ (\/ MoveCtor(h, g) \/ MoveCtorOther(h, g)
                     \/ MoveAssign(h, g) \/ MoveAssignOther(h, g)))
          => /\ ~bool(Cur', g)
             /\ get(Cur', g) = Null
             /\ get(Cur', h) = get(Cur, g)]_vars

MoveEmptiesSourceWitness ==
    /\ last \in {"move_ctor", "move_ctor_other", "move_assign",
                 "move_assign_other"}
    /\ \E h, g \in Handles :
          live[h] /\ live[g] /\ ptr[h] # Null /\ ptr[g] = Null
          /\ heap[ptr[h]] = "alloc"

\* C3, as stated: in every reachable state at most one live handle holds any
\* given non-null address.
UniqueHolder == \A a \in Addr : Cardinality(Holders(a)) <= 1

\* the client binds to handle h an address that another live handle holds
BindsHeld(h, p) == p # Null /\ Holders(p) \ {h} # {}

\* C3, amended: every operation keeps "at most one live handle holds any
\* given non-null address", except an explicit-address construction or a
\* reset(newAddress) that is given an address another live handle holds.
UniqueHolderKept ==
    [][(UniqueHolder /\ ~UniqueHolder')
       => /\ last' \in {"ctor_ptr", "reset_ptr"}
          /\ \E h \in Handles, p \in Addr :
                BindsHeld(h, p) /\ (Ctor(h, p) \/ ResetPtr(h, p))]_vars

UniqueHolderKeptWitness ==
    /\ UniqueHolder
    /\ last \in {"move_assign", "swap", "reset_ptr", "move_ctor"}
    /\ \E h, g \in Handles :
          h # g /\ live[h] /\ live[g] /\ ptr[h] # Null /\ ptr[g] # Null

\* address a is not among the addresses the operation that ended in s
\* passed to a deleter
NotPassed(s, a) == \A i \in 1 .. Len(s.calls) : s.calls[i][2] # a

\* C4: release() returns the held address, leaves the handle empty and
\* invokes no deleter; and as long as the released address is not bound to
\* a handle again, no operation and no destruction passes it to a deleter.
ReleaseHandsOver ==
    [][/\ last' = "release" =>
          \A h \in Handles :
             Release(h) => /\ ret' = get(Cur, h)
                           /\ callerOwns' = callerOwns \cup ({ptr[h]} \ {Null})
                           /\ ~bool(Cur', h)
                           /\ release(Cur, h).calls = <<>>
                           /\ ncalls' = 0
                           /\ ndel' = ndel /\ heap' = heap
       /\ \A a \in callerOwns : ndel'[a] = 0 /\ heap'[a] = "alloc"]_vars

ReleaseHandsOverWitness ==
    /\ NoneLive
    /\ last = "dtor"
    /\ \E a \in callerOwns : heap[a] = "alloc" /\ ndel[a] = 0

---------------------------------------------------------------------------
(* The effect of single operations.                                        *)

\* the handles other than those in S keep their lifetime and members
OthersKept(S) ==
    \A k \in Handles \ S :
        live'[k] = live[k] /\ ptr'[k] = ptr[k] /\ deleter'[k] = deleter[k]

\* the objects other than those in S are neither allocated nor disposed
ObjectsKept(S) ==
    \A a \in Addr \ S : heap'[a] = heap[a] /\ ndel'[a] = ndel[a]

\* what C5 says of a move assignment h = move(g) that made the deleter
\* invocations of s
MoveAssignPost(s, h, g) ==
    /\ s.calls = IF ptr[h] # ptr[g] THEN << <<deleter[h], ptr[h]>> >> ELSE <<>>
    /\ ncalls' = Len(s.calls)
    /\ ptr'[h] = ptr[g]
    /\ deleter'[h] = deleter[g]
    /\ ptr'[g] = Null
    /\ ptr[h] # Null => (heap'[ptr[h]] = "freed" /\ ndel'[ptr[h]] = ndel[ptr[h]] + 1)
    /\ ptr[g] # Null => NotPassed(s, ptr[g])
    /\ ObjectsKept({ptr[h]})
    /\ OthersKept({h, g})
    /\ LET r == release(Cur, g)
           t == set_deleter(reset_ptr(r, h, r.result), h, get_deleter(Cur, g))
       IN  s.calls = t.calls /\ ptr' = t.ptr /\ deleter' = t.deleter

\* C5: move assignment h = move(g), h and g distinct: the address h held,
\* if it differs from the incoming one, is passed once to the deleter h held
\* before the assignment; then h holds g's former address and g's deleter,
\* g is empty, and the incoming address is not disposed.
MoveAssignEffect ==
    [][last' \in {"move_assign", "move_assign_other"} =>
       \A h, g \in Handles :
          /\ (h # g /\ MoveAssign(h, g))
                => MoveAssignPost(move_assign(Cur, h, g), h, g)
          /\ (h # g /\ MoveAssignOther(h, g))
                => MoveAssignPost(move_assign_other(Cur, h, g), h, g)]_vars

MoveAssignEffectWitness ==
    /\ last \in {"move_assign", "move_assign_other"}
    /\ \E h, g \in Handles :
          /\ h # g /\ live[h] /\ live[g] /\ ptr[h] # Null /\ ptr[g] = Null
          /\ deleter[h] # DefaultDeleter
          /\ \E a \in Addr : heap[a] = "freed" /\ ndel[a] = 1

\* C6: reset(newAddress) with newAddress other than the current address
\* invokes the stored deleter once, on the old address; then the handle
\* holds newAddress, which is not passed to the deleter, and the stored
\* deleter is the same.
ResetPtrEffect ==
    [][last' = "reset_ptr" =>
       \A h \in Handles, p \in Pointer :
          (ResetPtr(h, p) /\ p # ptr[h])
          => /\ reset_ptr(Cur, h, p).calls = << <<deleter[h], ptr[h]>> >>
             /\ ncalls' = 1
             /\ ptr'[h] = p
             /\ deleter'[h] = deleter[h]
             /\ p # Null => heap'[p] = "alloc" /\ ndel'[p] = 0
             /\ ptr[h] # Null => (heap'[ptr[h]] = "freed"
                                  /\ ndel'[ptr[h]] = ndel[ptr[h]] + 1)
             /\ ObjectsKept({p, ptr[h]})
             /\ OthersKept({h})]_vars

ResetPtrEffectWitness ==
    /\ last = "reset_ptr"
    /\ \E h \in Handles, a \in Addr :
          /\ live[h] /\ ptr[h] \in Addr \ {a} /\ deleter[h] # DefaultDeleter
          /\ heap[a] = "freed" /\ ndel[a] = 1
          /\ \A g \in Handles \ {h} : live[g] /\ ptr[g] = Null

\* C7: h.reset(h.get()) invokes no deleter, not even on null, and leaves
\* the address and the deleter of h, and every object, as they were.
SelfResetNoOp ==
    [][last' = "reset_ptr" =>
       \A h \in Handles :
          ResetPtr(h, get(Cur, h))
          => /\ reset_ptr(Cur, h, get(Cur, h)).calls = <<>>
             /\ ncalls' = 0
             /\ ptr' = ptr /\ deleter' = deleter /\ live' = live
             /\ heap' = heap /\ ndel' = ndel]_vars

SelfResetNoOpWitness ==
    /\ last = "reset_ptr"
    /\ ncalls = 0
    /\ \A h \in Handles : live[h] /\ ptr[h] # Null

\* C8: reset() on an empty handle passes the null address, and nothing
\* else, to the deleter, disposes no object and leaves the handle empty
\* with its deleter; so the handle is in the same state after any number of
\* reset() calls as after one.
EmptyResetIdempotent ==
    [][last' = "reset" =>
       \A h \in Handles :
          (Reset(h) /\ ~bool(Cur, h))
          => /\ reset(Cur, h).calls = << <<deleter[h], Null>> >>
             /\ ncalls' = 1
             /\ ptr' = ptr /\ deleter' = deleter /\ live' = live
             /\ heap' = heap /\ ndel' = ndel
             /\ reset(reset(Cur, h), h).ptr = reset(Cur, h).ptr
             /\ reset(reset(Cur, h), h).deleter = reset(Cur, h).deleter]_vars

EmptyResetIdempotentWitness ==
    /\ last = "reset"
    /\ \A a \in Addr : heap[a] = "never"
    /\ \E h \in Handles : live[h] /\ ptr[h] = Null /\ deleter[h] # DefaultDeleter

\* C9: destroying a handle invokes its deleter once, on the address it
\* holds, as reset() does: an object it holds is disposed, and no other
\* handle's address or deleter changes.
DestroyIsReset ==
    [][last' = "dtor" =>
       \A h \in Handles :
          Destroy(h)
          => /\ dtor(Cur, h).calls = << <<deleter[h], ptr[h]>> >>
             /\ ncalls' = 1
             /\ dtor(Cur, h).calls = reset(Cur, h).calls
             /\ ~live'[h]
             /\ ptr[h] # Null => (heap'[ptr[h]] = "freed"
                                  /\ ndel'[ptr[h]] = ndel[ptr[h]] + 1)
             /\ ObjectsKept({ptr[h]})
             /\ OthersKept({h})]_vars

DestroyIsResetWitness ==
    /\ last = "dtor"
    /\ \E a \in Addr : heap[a] = "freed" /\ ndel[a] = 1
    /\ \E h, g \in Handles : ~live[h] /\ live[g] /\ ptr[g] # Null

\* C10: swap exchanges the two handles' addresses and deleters, each
\* address staying with its deleter, and invokes no deleter; a handle
\* swapped with itself is unchanged, and a second swap of the same pair
\* restores both handles.
SwapExchanges ==
    [][last' = "swap" =>
       \A h, g \in Handles :
          Swap(h, g)
          => /\ ptr'[h] = ptr[g] /\ deleter'[h] = deleter[g]
             /\ ptr'[g] = ptr[h] /\ deleter'[g] = deleter[h]
             /\ swap(Cur, h, g).calls = <<>>
             /\ ncalls' = 0
             /\ heap' = heap /\ ndel' = ndel
             /\ OthersKept({h, g})
             /\ swap(Cur', h, g).ptr = ptr
             /\ swap(Cur', h, g).deleter = deleter]_vars

SwapExchangesWitness ==
    /\ last = "swap"
    /\ \E h, g \in Handles :
          /\ h # g /\ live[h] /\ live[g]
          /\ ptr[h] # ptr[g] /\ deleter[h] # deleter[g]
          /\ ptr[h] # Null

---------------------------------------------------------------------------
(* Dereference and comparison.                                             *)

DerefOps == {"deref_const", "deref", "arrow_const", "arrow"}

\* C11: dereferencing (operator* or operator->, const or not) a handle whose
\* address is null stops the program, and nothing runs afterwards;
\* dereferencing a non-empty handle does not stop it, yields the managed
\* object and leaves every address and deleter as it was.
DerefChecked ==
    [][/\ ~halted
       /\ last' \in DerefOps =>
             \A h \in Handles :
                (DerefConst(h) \/ Deref(h) \/ ArrowConst(h) \/ Arrow(h))
                => /\ halted' = ~bool(Cur, h)
                   /\ bool(Cur, h) => obs' = <<h, get(Cur, h)>>
                   /\ ptr' = ptr /\ deleter' = deleter /\ live' = live
                   /\ heap' = heap /\ ndel' = ndel]_vars

DerefCheckedWitness ==
    /\ halted
    /\ last \in DerefOps
    /\ live[obs[1]] /\ ptr[obs[1]] = Null
    /\ \E g \in Handles : live[g] /\ ptr[g] # Null

\* C12: for every handle h, h == nullptr is !bool(h), h != nullptr is
\* bool(h), h < nullptr is false, h > nullptr is bool(h), h <= nullptr is
\* !bool(h) and h >= nullptr is true.
NullComparisonLaws ==
    last = "compare_null" =>
        LET h == obs[1]
            r == obs[2]
        IN  /\ r.eq = ~bool(Cur, h)
            /\ r.ne = bool(Cur, h)
            /\ r.lt = FALSE
            /\ r.gt = bool(Cur, h)
            /\ r.le = ~bool(Cur, h)
            /\ r.ge = TRUE

NullComparisonLawsWitness ==
    /\ last = "compare_null"
    /\ ptr[obs[1]] # Null
    /\ obs[2].gt /\ ~obs[2].le

---------------------------------------------------------------------------
(* The two overloads of reset with an address.                             *)

\* C20: from the same state of a handle and with the same address argument,
\* reset(pointer) and reset(OtherType*) pass the same addresses to the
\* deleter in the same order (the old address once when the argument
\* differs from it, nothing otherwise) and leave the same final state.
ResetOverloadsAgree ==
    \A h \in Handles : \A p \in Pointer :
        live[h] =>
            LET s == reset_ptr(Cur, h, p)
                t == reset_other(Cur, h, p)
            IN  /\ s.calls = t.calls
                /\ s.ptr = t.ptr /\ s.deleter = t.deleter
                /\ t.calls = IF p # ptr[h] THEN << <<deleter[h], ptr[h]>> >>
                             ELSE <<>>
                /\ t.ptr[h] = p

ResetOverloadsAgreeWitness ==
    /\ last = "reset_other"
    /\ ncalls = 1
    /\ \E h \in Handles, a \in Addr :
          /\ live[h] /\ ptr[h] \in Addr \ {a}
          /\ heap[a] = "freed" /\ ndel[a] = 1

---------------------------------------------------------------------------
(* btn::array.                                                             *)

CapacityOf(S) ==
    [size |-> S, max_size |-> S, available |-> 0, empty |-> FALSE, full |-> TRUE]

FixedCapacity ==
    /\ Size > 0
    /\ size(Size) = Size /\ max_size(Size) = Size
    /\ available(Size) = 0 /\ full(Size) /\ ~empty(Size)
    /\ \A x \in Arrays : DOMAIN data[x] = 0 .. Size - 1
    /\ last = "capacity" => obs[2] = CapacityOf(Size)

\* C15: in every state an array of any valid Size reaches by element
\* writes, fill and swap, size() and max_size() are Size, available() is 0,
\* full() is true and empty() is false; Size never changes and the array
\* always has exactly the elements 0 .. Size - 1.
CapacityIsFixed == [][Size' = Size /\ FixedCapacity /\ FixedCapacity']_vars

CapacityIsFixedWitness ==
    /\ last = "capacity"
    /\ Size = MaxSize
    /\ obs[2].size = MaxSize /\ obs[2].full
    /\ data["a"] # data["b"]

ReadOps == {"subscript_const", "subscript", "at_const", "at"}
WriteOps == {"assign_subscript", "assign_at"}

\* C16: operator[] and at, const or not, read or written through, given an
\* index outside [0, Size) (negative, Size or more) stop the program
\* without reading or writing an element; given an index inside [0, Size)
\* they do not stop it and refer to the element of that index.
BoundsChecked ==
    [][last' \in ReadOps \cup WriteOps =>
         LET x == obs'[1]
             i == obs'[2]
             r == obs'[3]
         IN  IF i \in 0 .. Size - 1
             THEN /\ ~halted'
                  /\ r.index = i /\ r.value = data[x][i]
                  /\ last' \in ReadOps => data' = data
                  /\ \A y \in Arrays : \A j \in 0 .. Size - 1 :
                        (y # x \/ j # i) => data'[y][j] = data[y][j]
             ELSE /\ halted'
                  /\ data' = data
                  /\ r = Invalid]_vars

BoundsCheckedWitness ==
    /\ halted
    /\ last = "assign_at"
    /\ obs[2] = Size
    /\ Size > 1

\* the first index where a and b differ (Size when there is none)
RECURSIVE FirstDifference(_, _, _)
FirstDifference(a, b, i) ==
    IF i = Size \/ a[i] # b[i] THEN i ELSE FirstDifference(a, b, i + 1)

\* C17: for two arrays a and b of one Size, a == b iff all corresponding
\* elements are equal; otherwise a < b iff a's element is the smaller one
\* at the first index where they differ; a != b is !(a == b), a > b is
\* b < a, a <= b is !(b < a), a >= b is !(a < b); exactly one of a < b,
\* a == b, a > b holds.
LexicographicOrder ==
    last = "compare_arrays" =>
        LET a == data[obs[1]]
            b == data[obs[2]]
            r == obs[3]
            q == obs[4]
            k == FirstDifference(a, b, 0)
        IN  /\ r.eq = (\A i \in 0 .. Size - 1 : a[i] = b[i])
            /\ r.eq = (k = Size)
            /\ r.lt = (k < Size /\ a[k] < b[k])
            /\ r.ne = ~r.eq
            /\ r.gt = q.lt
            /\ r.le = ~q.lt
            /\ r.ge = ~r.lt
            /\ Cardinality({c \in {"lt", "eq", "gt"} :
                              \/ c = "lt" /\ r.lt
                              \/ c = "eq" /\ r.eq
                              \/ c = "gt" /\ r.gt}) = 1

LexicographicOrderWitness ==
    /\ last = "compare_arrays"
    /\ Size >= 3
    /\ LET a == data[obs[1]]
           b == data[obs[2]]
       IN  /\ a[0] = b[0]
           /\ a[1] < b[1]
           /\ a[2] > b[2]
    /\ obs[3].lt /\ obs[3].le /\ obs[3].ne /\ ~obs[3].ge

\* C18: x.swap(y) exchanges the contents of two arrays of one Size element
\* by element: afterwards x[i] is y's former element i and y[i] is x's
\* former element i for every i, and Size is unchanged; swapping again
\* restores both.
SwapExchangesElements ==
    [][last' = "array_swap" =>
         LET x == obs'[1]
             y == obs'[2]
         IN  /\ \A i \in 0 .. Size - 1 :
                   /\ data'[x][i] = data[y][i]
                   /\ data'[y][i] = data[x][i]
             /\ \A z \in Arrays \ {x, y} : data'[z] = data[z]
             /\ \A z \in Arrays : DOMAIN data'[z] = 0 .. Size - 1
             /\ Size' = Size
             /\ ~halted'
             /\ array_swap(data', x, y, Size) = data]_vars

\* an array of size 4 filled with 7 was swapped with one filled with 3
SwapExchangesElementsWitness ==
    /\ last = "array_swap"
    /\ obs = <<"a", "b">>
    /\ Size = 4
    /\ data["a"] = [i \in 0 .. 3 |-> 3]
    /\ data["b"] = [i \in 0 .. 3 |-> 7]

\* C19: x.fill(v) makes at(i) give v for every i in [0, Size) whatever the
\* elements were, writes no other element, and then front() is element 0
\* and back() is element Size - 1; front() and back() always are.
FillAssignsAll ==
    [][/\ last' = "fill" =>
            LET x == obs'[1]
                v == obs'[2]
            IN  /\ \A i \in 0 .. Size - 1 :
                      at_const(data'[x], Size, i) = [halt |-> FALSE, index |-> i, value |-> v]
                /\ DOMAIN data'[x] = 0 .. Size - 1
                /\ \A y \in Arrays \ {x} : data'[y] = data[y]
                /\ front(data'[x], Size) = at_const(data'[x], Size, 0)
                /\ back(data'[x], Size) = at_const(data'[x], Size, Size - 1)
                /\ front(data'[x], Size).value = v
                /\ back(data'[x], Size).value = v
       /\ last' = "front" =>
            obs'[2] = [halt |-> FALSE, index |-> 0, value |-> data[obs'[1]][0]]
       /\ last' = "back" =>
            obs'[2] = [halt |-> FALSE, index |-> Size - 1,
                       value |-> data[obs'[1]][Size - 1]]]_vars

FillAssignsAllWitness ==
    /\ last = "fill"
    /\ Size = MaxSize
    /\ \A i \in 0 .. Size - 1 : data[obs[1]][i] = obs[2]
    /\ \E y \in Arrays : \E i, j \in 0 .. Size - 1 : data[y][i] # data[y][j]

---------------------------------------------------------------------------
(* Threads on different handles.                                           *)

\* what the function op of handle h gives when it runs alone from s
Alone(op, s, h, p) ==
    CASE op = "release" -> release(s, h)
      [] op = "reset" -> reset(s, h)
      [] op = "reset_ptr" -> reset_ptr(s, h, p)
      [] op = "dtor" -> dtor(s, h)
      [] OTHER -> ctor_ptr(s, h, p)

\* C14: when each thread works on its own handle and the steps of the
\* threads interleave in any order, no address is passed to a deleter
\* twice, a deleter is only given a live object or null, no step of a
\* thread changes another thread's handle, and every member function ends
\* with the deleter invocations, the result and the members of the handle
\* it would have given running alone.
ThreadsDoNotInterfere ==
    [][last' = "thread" =>
         /\ \A a \in Addr : ndel'[a] <= 1
         /\ \A t \in Threads :
               thr'[t] # thr[t] =>
                  LET c == thr[t]
                      e == Alone(c.op, [Cur EXCEPT !.ptr[t] = c.ptr0], t, c.arg)
                  IN  /\ \A g \in Handles \ {t} :
                            /\ ptr'[g] = ptr[g]
                            /\ deleter'[g] = deleter[g]
                            /\ live'[g] = live[g]
                      /\ (c.pc = "delete" /\ c.tmp # Null) => heap[c.tmp] = "alloc"
                      /\ (c.pc # "idle" /\ thr'[t].pc = "idle") =>
                            /\ ptr'[t] = e.ptr[t]
                            /\ deleter'[t] = e.deleter[t]
                            /\ c.done = e.calls
                            /\ live'[t] = (c.op # "dtor")
                            /\ c.op = "release" =>
                                  /\ c.tmp = e.result
                                  /\ thr'[t].owns = c.owns \cup ({e.result} \ {Null})]_vars

\* two threads are each between the deleter call and the clearing of _ptr
ThreadsDoNotInterfereWitness ==
    /\ thr[1].pc = "clear" /\ thr[2].pc = "clear"
    /\ thr[1].done # <<>> /\ thr[2].done # <<>>
    /\ thr[1].tmp \in Addr /\ thr[2].tmp \in Addr
    /\ thr[1].tmp # thr[2].tmp
    /\ heap[thr[1].tmp] = "freed" /\ heap[thr[2].tmp] = "freed"

---------------------------------------------------------------------------
(* Move assignment of a handle to itself.                                  *)

\* C21: h = move(h) on a non-empty handle passes no non-null address to a
\* deleter (the deleter is invoked once, on null), disposes no object, and
\* leaves h holding the address and the deleter it held, and every other
\* handle as it was.
SelfMoveAssignKeeps ==
    [][last' = "move_assign" =>
       \A h \in Handles :
          (MoveAssign(h, h) /\ bool(Cur, h))
          => /\ move_assign(Cur, h, h).calls = << <<deleter[h], Null>> >>
             /\ Disposed(move_assign(Cur, h, h)) = {}
             /\ ncalls' = 1
             /\ ptr' = ptr
             /\ deleter' = deleter
             /\ heap' = heap /\ ndel' = ndel
             /\ get(Cur', h) = get(Cur, h)]_vars

\* every handle is live and holds an object, nothing was ever disposed, and
\* the last move assignment invoked a deleter: it had one handle on both
\* sides
SelfMoveAssignKeepsWitness ==
    /\ last = "move_assign"
    /\ ncalls = 1
    /\ \A h \in Handles : live[h] /\ ptr[h] # Null
    /\ \A a \in Addr : heap[a] # "freed"

---------------------------------------------------------------------------
(* The order of reset(): the deleter first, then the clearing.             *)

ResetSteps ==
    {"begin_reset", "invoke_deleter", "observe_in_deleter", "deleter_returns",
     "clear_ptr", "bind_ptr"}

\* the innermost call after the step
TopAfter == stack'[Len(stack')]

\* C22: reset(), also when called by the destructor or by reset(pointer),
\* gives the deleter the address the handle holds and goes on holding it
\* while the deleter runs; _ptr is written only after the deleter has
\* returned.  So get() and operator bool called by the running deleter see
\* the old address, and a reset() called by the running deleter on a
\* non-empty handle gives the same address to the deleter a second time.
DeleterRunsBeforeClear ==
    [][last' \in ResetSteps =>
         /\ last' = "invoke_deleter" =>
               /\ TopAfter.arg = get(Cur, Top.h)
               /\ ptr' = ptr /\ live' = live
               /\ get(Cur', Top.h) = TopAfter.arg
         /\ ptr' # ptr =>
               /\ last' \in {"clear_ptr", "bind_ptr"}
               /\ Top.pc \in {"clear", "bind"}
               /\ \A g \in Handles \ {Top.h} : ptr'[g] = ptr[g]
         /\ last' = "clear_ptr" => ptr'[Top.h] = Null
         /\ (stack' # <<>> /\ TopAfter.pc = "in_deleter" /\ ~TopAfter.nested) =>
               get(Cur', TopAfter.h) = TopAfter.arg
         /\ last' = "observe_in_deleter" =>
               /\ obs' = <<Top.h, ptr[Top.h], ptr[Top.h] # Null>>
               /\ ~Top.nested => (obs'[2] = Top.arg /\ obs'[3] = (Top.arg # Null))
         /\ (/\ last' = "invoke_deleter"
             /\ Len(stack) >= 2
             /\ stack[Len(stack) - 1].arg # Null
             /\ ~stack[Len(stack) - 1].nested) =>
               /\ TopAfter.arg = stack[Len(stack) - 1].arg
               /\ ndel'[TopAfter.arg] = ndel[TopAfter.arg] + 1
               /\ ndel'[TopAfter.arg] >= 2]_vars

\* the deleter called by reset() has called reset() again, both were given
\* the object the handle still holds, and the inner deleter has looked at
\* the handle
DeleterRunsBeforeClearWitness ==
    /\ Len(stack) = 2
    /\ stack[1].pc = "in_deleter" /\ stack[2].pc = "in_deleter"
    /\ stack[1].arg \in Addr /\ stack[2].arg = stack[1].arg
    /\ ndel[stack[1].arg] = 2
    /\ ptr[stack[1].h] = stack[1].arg
    /\ last = "observe_in_deleter"
    /\ obs = <<stack[1].h, stack[1].arg, TRUE>>

=============================================================================
